---- MODULE Spec2Model ----
(***************************************************************************)
(* Model of the RISC-V fuzzing driver: the calibration stage               *)
(* (src/src/calibration.rs), the fuzz loop that runs it                    *)
(* (src/src/bin/sim-fuzzer.rs) and the biased instruction generator        *)
(* (src/src/generator.rs).                                                 *)
(*                                                                         *)
(* Conventions.  Option<T> is a sequence of length 0 (None) or 1 (Some).   *)
(* Corpus ids are the indices 1..Len(corpus).  A Duration is its number of *)
(* seconds.  A ProgramInput is abstracted to insts().len(), the only thing *)
(* the calibration stage reads from it.                                    *)
(***************************************************************************)
EXTENDS Integers, Sequences, FiniteSets, TLC

VARIABLES
    corpus,      \* state.corpus(): sequence of testcases
    psmeta,      \* Option<SchedulerMetadata> in the state's metadata map
    cur,         \* Option<CorpusId>: state.current_corpus_id()
    trace,       \* the calls the perform that led to this state made, in order
    result,      \* "Ok" | "Err" returned by that perform; "none" if no perform
    execs,       \* per entry: number of run_target calls made by calibration
    stage_id,    \* Option<StageId>: state.current_stage_id()
    retry,       \* Option<RetryCountRestartHelper>: named metadata of the stage
    pc,          \* position of the worker inside the fuzz loop
    powered,     \* per entry: None, or Some(execs of the entry) as it was when
                 \* the power stage first ran on the entry
    interrupted, \* entries whose calibration a restart of the worker cut short
    gen,         \* the InstGenerator: known_args and the two chances
    out,         \* Option: the last generate_instructions call and its result
    no_arg_reuse \* PHANTOM_TRAILS_NO_ARG_REUSE is set in the process environment

calibVars == <<corpus, psmeta, cur, trace, result, execs>>
loopVars == <<stage_id, retry, pc, powered, interrupted>>
genVars == <<gen, out, no_arg_reuse>>
vars == <<corpus, psmeta, cur, trace, result, execs, stage_id, retry, pc,
          powered, interrupted, gen, out, no_arg_reuse>>

(***************************************************************************)
(* Bounds of the model.                                                    *)
(***************************************************************************)
MaxAdded == 1         \* entries added to the corpus after the seed
MaxRuns == 2          \* run_target calls in one behaviour
MaxSched == 1         \* scheduled_count of an entry
MaxQueueCycles == 1   \* queue cycles the scheduler completes
MaxPool == 3          \* arguments in known_args
MaxNumber == 2        \* instructions asked of generate_instructions
RawRange == 4         \* values the random source's next() ranges over

\* The seed program of the fuzzer has three instructions.
SeedInsts == 3
\* Instruction counts of the programs later added to the corpus.
InstCounts == {2}
\* Numbers of nonzero bytes a run leaves in the coverage map.
BitmapCounts == {0, 2}

None == <<>>
Some(x) == <<x>>
IsSome(o) == Len(o) = 1
Unwrap(o) == o[1]

ExitKinds == {"Ok", "Crash", "Timeout"}

(***************************************************************************)
(* f64 as used for bitmap_size_log: a finite value in thousandths, or one  *)
(* of the IEEE specials.  Rounding of the fraction is not modelled.        *)
(***************************************************************************)
Fin(m) == [k |-> "fin", m |-> m]
NegInf == [k |-> "ninf", m |-> 0]
PosInf == [k |-> "pinf", m |-> 0]
NaN == [k |-> "nan", m |-> 0]

RECURSIVE FloorLog2(_)
FloorLog2(n) == IF n <= 1 THEN 0 ELSE 1 + FloorLog2(n \div 2)

\* libm::log2(n as f64) for an unsigned n: -inf at 0, else the logarithm.
log2(n) ==
    IF n = 0 THEN NegInf
    ELSE IF n = 3 THEN Fin(1585)
    ELSE IF n = 5 THEN Fin(2322)
    ELSE IF n = 6 THEN Fin(2585)
    ELSE IF n = 7 THEN Fin(2807)
    ELSE Fin(1000 * FloorLog2(n))

\* IEEE-754 addition on the modelled values.
F64Add(a, b) ==
    IF a.k = "nan" \/ b.k = "nan" THEN NaN
    ELSE IF a.k = "fin" /\ b.k = "fin" THEN Fin(a.m + b.m)
    ELSE IF a.k = "fin" THEN b
    ELSE IF b.k = "fin" THEN a
    ELSE IF a.k = b.k THEN a
    ELSE NaN

IsFinite(x) == x.k = "fin"

(***************************************************************************)
(* Metadata records of the engine that the stage reads and writes.         *)
(***************************************************************************)
\* SchedulerMetadata::new: every accumulator starts at zero.
SchedulerMetadata_new ==
    [exec_time |-> 0, cycles |-> 0, bitmap_size |-> 0,
     bitmap_size_log |-> Fin(0), bitmap_entries |-> 0, queue_cycles |-> 0]

\* SchedulerTestcaseMetadata::new(depth)
SchedulerTestcaseMetadata_new(depth) ==
    [depth |-> depth, cycle_and_time |-> <<0, 0>>, bitmap_size |-> 0,
     handicap |-> 0]

\* Testcase as stored by the corpus.
Testcase(n, parent, meta) ==
    [input |-> n, scheduled_count |-> 0, parent_id |-> parent,
     exec_time |-> None, metadata |-> meta]

Ids == 1..Len(corpus)

Range(s) == {s[i] : i \in 1..Len(s)}

(***************************************************************************)
(* DummyCalibration::perform                                               *)
(***************************************************************************)
Fails == {"none", "pre", "run", "log", "post", "tc", "parent"}

\* A variant that takes every exit for abnormal; C17 tells it from abnormal.
abnormal_always(exit_kind) == TRUE

\* exit_kind != ExitKind::Ok
abnormal(exit_kind) == exit_kind # "Ok"

\* A variant that takes the bare instruction count; C16 tells it from
\* total_time_of.
total_time_of_insts_only(testcase) == testcase.input

\* Duration::from_secs((program.insts().len() + 1) as u64)
total_time_of(testcase) == testcase.input + 1

\* A variant that adds the filled bytes to the entry count; C15 tells it
\* from accumulate.
accumulate_bytes_as_entries(ps, total_time, bitmap_size) ==
    [ps EXCEPT !.exec_time = ps.exec_time + total_time,
               !.cycles = ps.cycles + 1,
               !.bitmap_size = ps.bitmap_size + bitmap_size,
               !.bitmap_size_log = F64Add(ps.bitmap_size_log, log2(bitmap_size)),
               !.bitmap_entries = ps.bitmap_entries + bitmap_size]

\* The accumulation into SchedulerMetadata, iter = 1.
accumulate(ps, total_time, bitmap_size) ==
    [ps EXCEPT !.exec_time = ps.exec_time + total_time,
               !.cycles = ps.cycles + 1,
               !.bitmap_size = ps.bitmap_size + bitmap_size,
               !.bitmap_size_log = F64Add(ps.bitmap_size_log, log2(bitmap_size)),
               !.bitmap_entries = ps.bitmap_entries + 1]

\* A variant that copies the parent's depth; C3 tells it from new_depth.
new_depth_of_parent(c, testcase) ==
    IF IsSome(testcase.parent_id)
    THEN LET parent == c[Unwrap(testcase.parent_id)]
         IN IF IsSome(parent.metadata)
            THEN Unwrap(parent.metadata).depth
            ELSE 0
    ELSE 0

\* The depth given to a freshly created SchedulerTestcaseMetadata.
new_depth(c, testcase) ==
    IF IsSome(testcase.parent_id)
    THEN LET parent == c[Unwrap(testcase.parent_id)]
         IN IF IsSome(parent.metadata)
            THEN Unwrap(parent.metadata).depth + 1
            ELSE 0
    ELSE 0

\* A variant that makes a new record every time; C21 tells it from
\* get_or_create.
always_create(c, testcase) ==
    SchedulerTestcaseMetadata_new(new_depth(c, testcase))

\* The entry's SchedulerTestcaseMetadata if it has one, else a new one.
get_or_create(c, testcase) ==
    IF IsSome(testcase.metadata)
    THEN Unwrap(testcase.metadata)
    ELSE SchedulerTestcaseMetadata_new(new_depth(c, testcase))

\* A variant that takes the calibration cycles; C19 tells it from
\* handicap_of.
handicap_of_cycles(ps) == ps.cycles

\* let handicap = psmeta.queue_cycles();
handicap_of(ps) == ps.queue_cycles

\* Lines 138-186, entered with the SchedulerMetadata present.
update_scheduler(c, ps, id, in) ==
    LET total_time == total_time_of(c[id])
        bitmap_size == in.bitmap
        handicap == handicap_of(ps)
        ps2 == accumulate(ps, total_time, bitmap_size)
        timed == [c[id] EXCEPT !.exec_time = Some(total_time)]
        c2 == [c EXCEPT ![id] = timed]
        needs_parent == ~IsSome(timed.metadata) /\ IsSome(timed.parent_id)
        base == get_or_create(c2, timed)
        data == [base EXCEPT !.cycle_and_time = <<total_time, 1>>,
                             !.bitmap_size = bitmap_size,
                             !.handicap = handicap]
    IN  IF in.fail = "tc"
        THEN [corpus |-> c, psmeta |-> Some(ps2), result |-> "Err",
              calls |-> <<"current_testcase_mut", "Err">>]
        ELSE IF needs_parent /\ in.fail = "parent"
        THEN [corpus |-> c2, psmeta |-> Some(ps2), result |-> "Err",
              calls |-> <<"corpus_get", "Err">>]
        ELSE [corpus |-> [c EXCEPT ![id] = [timed EXCEPT !.metadata = Some(data)]],
              psmeta |-> Some(ps2), result |-> "Ok",
              calls |-> IF IsSome(timed.metadata) THEN <<>> ELSE <<"add_metadata">>]

\* A variant that lets the stage run once more; C13 tells it from
\* already_scheduled.
already_scheduled_twice(testcase) == testcase.scheduled_count > 1

\* testcase.scheduled_count() > 0
already_scheduled(testcase) == testcase.scheduled_count > 0

\* A variant that turns an abnormal exit into an error; C4 tells it from
\* result_of_exit.
result_of_exit_strict(exit_kind) == IF abnormal(exit_kind) THEN "Err" ELSE "Ok"

\* The exit classification is logged, never turned into an error (120-126).
result_of_exit(exit_kind) == "Ok"

\* A variant that reports a normal exit to the hooks whatever the target
\* did; C14 tells it from post_exec_all_call.
post_exec_all_call_ok(exit_kind) == <<"post_exec_all", "Ok">>

\* post_exec_all(state, &input, &exit_kind): the call and the exit
\* classification it is given.
post_exec_all_call(exit_kind) == <<"post_exec_all", exit_kind>>

\* perform(fuzzer, executor, state, mgr); `in` is what the collaborators do:
\* in.fail names the call that returns an error (if it is reached), in.exit is
\* the ExitKind run_target returns, in.bitmap is map.count_bytes().  The trace
\* lists the calls made; a call's outcome follows it where it matters: "Err"
\* after a call that returned an error, the ExitKind after run_target; the
\* ExitKind handed to post_exec_all follows that call.
perform(c, ps, current, in) ==
    LET keep(tr, res, ran) ==
            [corpus |-> c, psmeta |-> ps, trace |-> tr, result |-> res, ran |-> ran]
    IN  IF ~IsSome(current) THEN keep(<<"current_testcase", "Err">>, "Err", FALSE)
        ELSE IF already_scheduled(c[Unwrap(current)]) THEN keep(<<>>, "Ok", FALSE)
        ELSE IF in.fail = "pre" THEN keep(<<"pre_exec_all", "Err">>, "Err", FALSE)
        ELSE IF in.fail = "run"
        THEN keep(<<"pre_exec_all", "run_target", "Err">>, "Err", TRUE)
        ELSE
        LET t1 == <<"pre_exec_all", "run_target", in.exit>>
            t2 == IF abnormal(in.exit) THEN Append(t1, "log_warn") ELSE t1
            t3 == t2 \o post_exec_all_call(in.exit)
        IN  IF abnormal(in.exit) /\ in.fail = "log"
            THEN keep(Append(t2, "Err"), "Err", TRUE)
            ELSE IF in.fail = "post" THEN keep(Append(t3, "Err"), "Err", TRUE)
            ELSE IF result_of_exit(in.exit) # "Ok" THEN keep(t3, "Err", TRUE)
            ELSE IF ~IsSome(ps) THEN keep(t3, "Ok", TRUE)
            ELSE LET u == update_scheduler(c, Unwrap(ps), Unwrap(current), in)
                 IN  [corpus |-> u.corpus, psmeta |-> u.psmeta,
                      trace |-> t3 \o u.calls, result |-> u.result, ran |-> TRUE]

Inputs == [fail : Fails, exit : ExitKinds, bitmap : BitmapCounts]

RECURSIVE SumSeq(_)
SumSeq(s) == IF s = <<>> THEN 0 ELSE s[1] + SumSeq(Tail(s))

TotalRuns == SumSeq(execs)

\* The effect of one perform call on the calibration state.
PerformCall(in) ==
    LET r == perform(corpus, psmeta, cur, in)
    IN  /\ corpus' = r.corpus
        /\ psmeta' = r.psmeta
        /\ trace' = r.trace
        /\ result' = r.result
        /\ execs' = IF r.ran
                    THEN [execs EXCEPT ![Unwrap(cur)] = @ + 1]
                    ELSE execs
        /\ UNCHANGED cur

(***************************************************************************)
(* The stage driven directly, as a test of the stage drives it: entries    *)
(* are added, one is made current, perform is called, and the engine       *)
(* counts a completed round.                                               *)
(***************************************************************************)
PreRecords == {None, Some(SchedulerTestcaseMetadata_new(0))}

\* The state after add_input has stored the seed (sim-fuzzer.rs, 263-271).
InitCalib ==
    /\ \E meta \in PreRecords : corpus = <<Testcase(SeedInsts, None, meta)>>
    /\ psmeta \in {None, Some(SchedulerMetadata_new)}
    /\ cur = None
    /\ trace = <<>>
    /\ result = "none"
    /\ execs = <<0>>

InitLoopIdle ==
    /\ stage_id = None
    /\ retry = None
    /\ pc = "idle"
    /\ powered = <<None>>
    /\ interrupted = {}

\* trace and result describe a perform call only in the state it leads to.
Forget == trace' = <<>> /\ result' = "none"

\* corpus.add(testcase): by add_input, or by a stage that found a new input.
AddEntry ==
    /\ Len(corpus) < 1 + MaxAdded
    /\ \E n \in InstCounts, parent \in {None, cur},
          meta \in PreRecords :
          corpus' = Append(corpus, Testcase(n, parent, meta))
    /\ execs' = Append(execs, 0)
    /\ powered' = Append(powered, None)
    /\ Forget
    /\ UNCHANGED <<psmeta, cur, stage_id, retry, pc, interrupted, gen, out, no_arg_reuse>>

\* state.set_corpus_id(id)
SetCurrent ==
    /\ \E id \in Ids : cur' = Some(id)
    /\ cur' # cur
    /\ Forget
    /\ UNCHANGED <<corpus, psmeta, execs>>
    /\ UNCHANGED <<loopVars, genVars>>

\* The stage's perform, called by the harness.
Perform ==
    /\ TotalRuns < MaxRuns
    /\ \E in \in Inputs : PerformCall(in)
    /\ UNCHANGED <<loopVars, genVars>>

\* The end of a fuzz_one round: the entry's scheduled count goes up.
RoundDone ==
    /\ IsSome(cur)
    /\ result = "Ok"
    /\ corpus[Unwrap(cur)].scheduled_count < MaxSched
    /\ corpus' = [corpus EXCEPT ![Unwrap(cur)].scheduled_count = @ + 1]
    /\ Forget
    /\ UNCHANGED <<psmeta, cur, execs>>
    /\ UNCHANGED <<loopVars, genVars>>

(***************************************************************************)
(* The restart bookkeeping of the stage.  should_restart delegates to      *)
(* RetryCountRestartHelper::no_retry and clear_progress to                 *)
(* RetryCountRestartHelper::clear_progress; the helper counts the tries    *)
(* that remain for the current entry and remembers the entries it gave up. *)
(***************************************************************************)
\* no_retry(state, name) is the helper's should_restart with this limit.
NoRetryLimit == 1

\* RetryCountRestartHelper::should_restart(state, name, max_retries)
helper_should_restart(r, id, max_retries) ==
    LET initial == max_retries + 1
        m == IF IsSome(r) THEN Unwrap(r)
             ELSE [tries_remaining |-> Some(initial), skipped |-> {}]
        before == IF IsSome(m.tries_remaining)
                  THEN Unwrap(m.tries_remaining) ELSE initial
        left == before - 1
    IN  IF before = 0
        THEN [retry |-> Some(m), result |-> "Err", restart |-> FALSE]
        ELSE [retry |-> Some([tries_remaining |-> Some(left),
                              skipped |-> IF left = 0 THEN m.skipped \cup {id}
                                          ELSE m.skipped]),
              result |-> "Ok",
              restart |-> left # 0 /\ id \notin m.skipped]

\* A variant that allows retries; C7 tells it from should_restart.
should_restart_retrying(r, id) == helper_should_restart(r, id, NoRetryLimit + 2)

\* DummyCalibration::should_restart
should_restart(r, id) == helper_should_restart(r, id, NoRetryLimit)

\* DummyCalibration::clear_progress
clear_progress(r) == Some([Unwrap(r) EXCEPT !.tries_remaining = None])

(***************************************************************************)
(* The fuzz loop of the worker: fuzz_one picks (or resumes) an entry, runs *)
(* the stages (calibration, power) in order, lets the event manager        *)
(* process its messages and counts the round on the entry.  An error ends  *)
(* the round; the loop logs it and goes on.                                *)
(***************************************************************************)
\* Stage ids as perform_all counts them in tuple_list!(calibration, power).
CalibrationStageId == 2
PowerStageId == 1

\* fuzz_one: the scheduler gives the next entry, unless a round is resumed.
FuzzOneBegin ==
    /\ pc = "idle"
    /\ \/ /\ IsSome(cur)
          /\ UNCHANGED <<cur, psmeta>>
       \/ /\ ~IsSome(cur)
          /\ \E id \in Ids :
                /\ corpus[id].scheduled_count < MaxSched
                /\ cur' = Some(id)
          /\ \/ UNCHANGED psmeta
             \/ /\ IsSome(psmeta)
                /\ Unwrap(psmeta).queue_cycles < MaxQueueCycles
                /\ psmeta' = Some([Unwrap(psmeta) EXCEPT !.queue_cycles = @ + 1])
    /\ pc' = "calib"
    /\ Forget
    /\ UNCHANGED <<corpus, execs, stage_id, retry, powered, interrupted, gen, out, no_arg_reuse>>

\* perform_all reaches the calibration stage: a round resumed at the power
\* stage passes it by; otherwise the stage is asked whether it may run.
StageCalibration ==
    /\ pc = "calib"
    /\ IF IsSome(stage_id) /\ Unwrap(stage_id) < CalibrationStageId
       THEN /\ pc' = "power"
            /\ UNCHANGED <<stage_id, retry>>
       ELSE LET sr == should_restart(retry, Unwrap(cur))
            IN  /\ stage_id' = Some(CalibrationStageId)
                /\ retry' = sr.retry
                /\ pc' = IF sr.result = "Err" THEN "idle"
                         ELSE IF sr.restart THEN "perform" ELSE "clear"
    /\ Forget
    /\ UNCHANGED <<corpus, psmeta, cur, execs, powered, interrupted, gen, out, no_arg_reuse>>

\* A variant in which the round goes on after an error of perform; C11 tells
\* it from CalibPerform.
CalibPerform_going_on ==
    /\ pc = "perform"
    /\ TotalRuns < MaxRuns
    /\ \E in \in Inputs : PerformCall(in)
    /\ pc' = "clear"
    /\ UNCHANGED <<stage_id, retry, powered, interrupted, gen, out, no_arg_reuse>>

\* perform_restartable calls perform; an error leaves the round.
CalibPerform ==
    /\ pc = "perform"
    /\ TotalRuns < MaxRuns
    /\ \E in \in Inputs : PerformCall(in)
    /\ pc' = IF result' = "Ok" THEN "clear" ELSE "idle"
    /\ UNCHANGED <<stage_id, retry, powered, interrupted, gen, out, no_arg_reuse>>

\* The worker dies while perform waits for the target and is restarted with
\* the state it had: the stage's progress is not cleared.
CalibInterrupt ==
    /\ pc = "perform"
    /\ TotalRuns < MaxRuns
    /\ corpus[Unwrap(cur)].scheduled_count = 0
    /\ execs' = [execs EXCEPT ![Unwrap(cur)] = @ + 1]
    /\ interrupted' = interrupted \cup {Unwrap(cur)}
    /\ pc' = "idle"
    /\ Forget
    /\ UNCHANGED <<corpus, psmeta, cur, stage_id, retry, powered, gen, out, no_arg_reuse>>

\* perform_restartable ends with clear_progress; the stage id is cleared.
CalibClear ==
    /\ pc = "clear"
    /\ retry' = clear_progress(retry)
    /\ stage_id' = None
    /\ pc' = "power"
    /\ UNCHANGED <<corpus, psmeta, cur, trace, result, execs, powered, interrupted, gen, out, no_arg_reuse>>

\* The power stage mutates the current entry; an input it finds interesting
\* is added to the corpus as a child of the current entry.
\* The record the scheduler's on_add hook attaches to a new child, if the
\* scheduler is one that does: one level below the parent's.
OnAddRecords(parent) ==
    {None} \cup (IF IsSome(parent.metadata)
                 THEN {Some(SchedulerTestcaseMetadata_new(
                           Unwrap(parent.metadata).depth + 1))}
                 ELSE {})

PowerStage ==
    /\ pc = "power"
    /\ LET id == Unwrap(cur)
           first == IF IsSome(powered[id]) THEN powered
                    ELSE [powered EXCEPT ![id] = Some(execs[id])]
       IN  \/ /\ UNCHANGED <<corpus, execs>>
              /\ powered' = first
           \/ /\ Len(corpus) < 1 + MaxAdded
              /\ \E n \in InstCounts, meta \in OnAddRecords(corpus[id]) :
                    corpus' = Append(corpus, Testcase(n, cur, meta))
              /\ execs' = Append(execs, 0)
              /\ powered' = Append(first, None)
    /\ \/ /\ stage_id' = None
          /\ pc' = "process"
       \/ /\ stage_id' = Some(PowerStageId)
          /\ pc' = "idle"
    /\ Forget
    /\ UNCHANGED <<psmeta, cur, retry, interrupted, gen, out, no_arg_reuse>>

\* manager.process, then the round is counted on the entry; an error of the
\* event manager ends the round before that.
ManagerProcess ==
    /\ pc = "process"
    /\ \/ /\ corpus' = [corpus EXCEPT ![Unwrap(cur)].scheduled_count = @ + 1]
          /\ cur' = None
       \/ UNCHANGED <<corpus, cur>>
    /\ pc' = "idle"
    /\ Forget
    /\ UNCHANGED <<psmeta, execs, stage_id, retry, powered, interrupted, gen, out, no_arg_reuse>>

(***************************************************************************)
(* The ISA model the generator works on: operand specs with a bit width,   *)
(* compared by identity (their name), and instruction templates with an    *)
(* ordered operand list.  A small table stands for the RISC-V one.         *)
(***************************************************************************)
RD == [name |-> "RD", length |-> 2]
RS1 == [name |-> "RS1", length |-> 2]
FLAG == [name |-> "FLAG", length |-> 1]
ArgSpecs == {RD, RS1, FLAG}

ADD == [name |-> "ADD", operands |-> <<RD, RS1>>]
SETF == [name |-> "SETF", operands |-> <<FLAG>>]
TemplateSets == {<<ADD>>, <<SETF, ADD>>}

RECURSIVE Pow2(_)
Pow2(k) == IF k = 0 THEN 1 ELSE 2 * Pow2(k - 1)

\* ArgumentSpec::max_value: the largest value of length() bits.
max_value(spec) == Pow2(spec.length) - 1

\* Argument::new(spec, value)
Argument_new(spec, value) == [spec |-> spec, value |-> value]

(***************************************************************************)
(* The random source.  Its state is a cyclic tape of raw values and a      *)
(* position; next() reads the tape.  below(n) scales a raw value into      *)
(* 0..n-1 by multiplying and dropping the low bits, choose picks the       *)
(* element at index below(len).                                            *)
(***************************************************************************)
TapeIndex == {1, 2, 3, 4}
RandStates == [tape : [TapeIndex -> 0..(RawRange - 1)], pos : {1}]

rand_next(rand) ==
    [value |-> rand.tape[rand.pos],
     rand |-> [rand EXCEPT !.pos = (rand.pos % Cardinality(TapeIndex)) + 1]]

\* Rand::below(upper_bound_excl)
below(rand, n) ==
    LET d == rand_next(rand)
    IN  [value |-> (d.value * n) \div RawRange, rand |-> d.rand]

\* Rand::choose(from): None, drawing nothing, if `from` is empty.
choose(rand, from) ==
    IF from = <<>> THEN [value |-> None, rand |-> rand]
    ELSE LET d == below(rand, Len(from))
         IN  [value |-> Some(from[d.value + 1]), rand |-> d.rand]

(***************************************************************************)
(* InstGenerator                                                           *)
(***************************************************************************)
Percent == 100
DefaultChance == 50

\* InstGenerator::new(); env_set: env::var("PHANTOM_TRAILS_NO_ARG_REUSE").is_ok()
InstGenerator_new(env_set) ==
    LET reuse_args == ~env_set
    IN  [known_args |-> <<>>,
         reuse_chance |-> IF reuse_args THEN DefaultChance ELSE 0,
         power_of_two_chance |-> IF reuse_args THEN DefaultChance ELSE 0]

\* #[derive(Default)]: every field gets its type's default.
InstGenerator_default ==
    [known_args |-> <<>>, reuse_chance |-> 0, power_of_two_chance |-> 0]

\* A variant that passes by arguments the pool already holds; C22 tells it
\* from forward_args.
forward_args_once(self, args) ==
    [self EXCEPT !.known_args =
        self.known_args \o SelectSeq(args, LAMBDA x : x \notin Range(self.known_args))]

\* forward_args(args)
forward_args(self, args) == [self EXCEPT !.known_args = self.known_args \o args]

\* A variant that reuses only arguments of the very same spec; C9 tells it
\* from reuse_options.
reuse_options_same_spec(known_args, arg) ==
    SelectSeq(known_args, LAMBDA x : x.spec = arg)

\* The pooled arguments generate_argument may reuse for `arg`.
reuse_options(known_args, arg) ==
    SelectSeq(known_args, LAMBDA x : x.spec.length = arg.length)

\* A variant that shifts by up to length() bits; C5 tells it from
\* power_of_two_value.
power_of_two_value_wide(rand, arg) ==
    LET k == below(rand, arg.length + 1)
    IN  [value |-> Pow2(k.value), rand |-> k.rand]

\* 1 << rand.below(arg.length())
power_of_two_value(rand, arg) ==
    LET k == below(rand, arg.length)
    IN  [value |-> Pow2(k.value), rand |-> k.rand]

\* rand.below(arg.max_value())
uniform_value(rand, arg) == below(rand, max_value(arg))

\* generate_argument(rand, arg): the Argument, the random source after the
\* call, and which of the three ways produced the value.
generate_argument(self, rand, arg) ==
    LET d1 == below(rand, Percent)
        options == reuse_options(self.known_args, arg)
    IN  IF d1.value < self.reuse_chance /\ options # <<>>
        THEN LET chosen == choose(d1.rand, options)
             IN  [arg |-> Argument_new(arg, Unwrap(chosen.value).value),
                  rand |-> chosen.rand, path |-> "reuse"]
        ELSE LET d2 == below(d1.rand, Percent)
             IN  IF d2.value < self.power_of_two_chance
                 THEN LET v == power_of_two_value(d2.rand, arg)
                      IN  [arg |-> Argument_new(arg, v.value),
                           rand |-> v.rand, path |-> "pow2"]
                 ELSE LET v == uniform_value(d2.rand, arg)
                      IN  [arg |-> Argument_new(arg, v.value),
                           rand |-> v.rand, path |-> "uniform"]

\* The loop of generate_instruction over the template's operands.
RECURSIVE generate_arguments(_, _, _, _)
generate_arguments(self, rand, operands, acc) ==
    IF operands = <<>> THEN [arguments |-> acc.arguments, paths |-> acc.paths,
                            rand |-> rand]
    ELSE LET g == generate_argument(self, rand, Head(operands))
         IN  generate_arguments(self, g.rand, Tail(operands),
                 [arguments |-> Append(acc.arguments, g.arg),
                  paths |-> Append(acc.paths, g.path)])

\* A variant that walks the operands last to first; C10 tells it from
\* generate_instruction.
generate_instruction_reversed(self, rand, insts) ==
    LET template == choose(rand, insts)
        operands == Unwrap(template.value).operands
        args == generate_arguments(self, template.rand,
                    [i \in 1..Len(operands) |-> operands[Len(operands) + 1 - i]],
                    [arguments |-> <<>>, paths |-> <<>>])
    IN  [inst |-> [template |-> Unwrap(template.value),
                   arguments |-> args.arguments],
         paths |-> args.paths, rand |-> args.rand]

\* generate_instruction(rand, insts), insts not empty.
generate_instruction(self, rand, insts) ==
    LET template == choose(rand, insts)
        args == generate_arguments(self, template.rand,
                    Unwrap(template.value).operands,
                    [arguments |-> <<>>, paths |-> <<>>])
    IN  [inst |-> [template |-> Unwrap(template.value),
                   arguments |-> args.arguments],
         paths |-> args.paths, rand |-> args.rand]

\* generate_instructions(rand, insts, number)
RECURSIVE generate_instructions(_, _, _, _)
generate_instructions(self, rand, insts, number) ==
    IF number = 0 THEN [result |-> <<>>, paths |-> <<>>, rand |-> rand]
    ELSE LET g == generate_instruction(self, rand, insts)
             rest == generate_instructions(self, g.rand, insts, number - 1)
         IN  [result |-> <<g.inst>> \o rest.result,
              paths |-> <<g.paths>> \o rest.paths, rand |-> rest.rand]

(***************************************************************************)
(* The generator driven by its callers: constructed, fed arguments, asked  *)
(* for instructions with a seeded random source.                           *)
(***************************************************************************)
\* Batches of arguments handed to forward_args.
Batches ==
    {<<Argument_new(RD, 3)>>,
     <<Argument_new(FLAG, 1)>>,
     <<Argument_new(RS1, 1), Argument_new(RS1, 1)>>}

InitGenIdle ==
    /\ no_arg_reuse = FALSE
    /\ gen = InstGenerator_new(no_arg_reuse)
    /\ out = None

NotCalib == UNCHANGED <<calibVars, loopVars>>

Construct ==
    /\ \/ gen' = InstGenerator_new(no_arg_reuse)
       \/ gen' = InstGenerator_default
    /\ out' = None
    /\ UNCHANGED no_arg_reuse
    /\ NotCalib

ForwardArgs ==
    /\ \E args \in Batches :
          /\ Len(gen.known_args) + Len(args) <= MaxPool
          /\ gen' = forward_args(gen, args)
    /\ out' = None
    /\ UNCHANGED no_arg_reuse
    /\ NotCalib

\* A caller asks for instructions; it has taken the previous result.
GenerateInstructions ==
    /\ out = None
    /\ \E rand \in RandStates, insts \in TemplateSets, number \in 0..MaxNumber :
          LET g == generate_instructions(gen, rand, insts, number)
          IN  out' = Some([rand |-> rand, insts |-> insts, number |-> number,
                           result |-> g.result, paths |-> g.paths])
    /\ UNCHANGED <<gen, no_arg_reuse>>
    /\ NotCalib

InitGen ==
    /\ corpus = <<>>
    /\ psmeta = None
    /\ cur = None
    /\ trace = <<>>
    /\ result = "none"
    /\ execs = <<>>
    /\ stage_id = None
    /\ retry = None
    /\ pc = "idle"
    /\ powered = <<>>
    /\ interrupted = {}
    /\ no_arg_reuse \in BOOLEAN
    /\ \/ gen = InstGenerator_new(no_arg_reuse)
       \/ gen = InstGenerator_default
    /\ out = None

NextGen == Construct \/ ForwardArgs \/ GenerateInstructions

SpecGen == InitGen /\ [][NextGen]_vars

(***************************************************************************)
(* The three specifications.                                               *)
(***************************************************************************)
InitStage == InitCalib /\ InitLoopIdle /\ InitGenIdle

NextStage == AddEntry \/ SetCurrent \/ Perform \/ RoundDone

SpecStage == InitStage /\ [][NextStage]_vars

InitLoop == InitCalib /\ InitLoopIdle /\ InitGenIdle

NextLoop ==
    \/ FuzzOneBegin
    \/ StageCalibration
    \/ CalibPerform
    \/ CalibInterrupt
    \/ CalibClear
    \/ PowerStage
    \/ ManagerProcess

SpecLoop == InitLoop /\ [][NextLoop]_vars


(***************************************************************************)
(* Properties of the calibration stage and of the fuzz loop.               *)
(***************************************************************************)
\* The state was reached by a perform call that ran the target and got an
\* abnormal exit classification back.
AbnormalRun ==
    /\ result # "none"
    /\ Len(trace) >= 3
    /\ trace[2] = "run_target"
    /\ abnormal(trace[3])
    /\ trace[3] # "Err"

CurEntry == corpus[Unwrap(cur)]

\* C1: a perform call made right after a perform call on the same entry that
\* ran the target changes no accumulator and does not run the target again.
C1_SecondPerformIsNoOp ==
    [][(result = "Ok" /\ "run_target" \in Range(trace) /\ result' # "none")
        => (psmeta' = psmeta /\ execs' = execs)]_vars

\* C2: the global log accumulator bitmap_size_log is always finite, also
\* after calibrating an entry whose coverage map has no nonzero byte.
C2_LogAccumulatorFinite ==
    IsSome(psmeta) => IsFinite(Unwrap(psmeta).bitmap_size_log)

\* C3: a record created by calibration has the parent's recorded depth + 1
\* if the parent carries a record and 0 otherwise; along every chain of
\* entries with records the depth grows by 1 per generation.
ExpectedDepth(id) ==
    LET tc == corpus[id]
    IN  IF IsSome(tc.parent_id) /\ IsSome(corpus[Unwrap(tc.parent_id)].metadata)
        THEN Unwrap(corpus[Unwrap(tc.parent_id)].metadata).depth + 1
        ELSE 0

DepthChain ==
    \A id \in Ids :
        (/\ IsSome(corpus[id].metadata)
         /\ IsSome(corpus[id].parent_id)
         /\ IsSome(corpus[Unwrap(corpus[id].parent_id)].metadata))
        => Unwrap(corpus[id].metadata).depth
             = Unwrap(corpus[Unwrap(corpus[id].parent_id)].metadata).depth + 1

C3_DepthPropagation ==
    /\ [][\A id \in Ids :
            (~IsSome(corpus[id].metadata) /\ IsSome(corpus'[id].metadata))
            => Unwrap(corpus'[id].metadata).depth = ExpectedDepth(id)]_vars
    /\ []DepthChain

\* C3 witness: calibration has just created the record of an entry whose
\* parent carries a record, with the parent's depth + 1.
C3_Witness ==
    /\ result = "Ok"
    /\ "add_metadata" \in Range(trace)
    /\ IsSome(CurEntry.parent_id)
    /\ IsSome(corpus[Unwrap(CurEntry.parent_id)].metadata)
    /\ Unwrap(CurEntry.metadata).depth
         = Unwrap(corpus[Unwrap(CurEntry.parent_id)].metadata).depth + 1

ClearedStep ==
    /\ IsSome(retry) /\ IsSome(Unwrap(retry).tries_remaining)
    /\ IsSome(retry') /\ ~IsSome(Unwrap(retry').tries_remaining)

\* The step asks the stage whether it may run on an entry whose calibration
\* a restart cut short.
AsksAfterInterrupt ==
    /\ pc = "calib"
    /\ Unwrap(cur) \in interrupted
    /\ ~(IsSome(stage_id) /\ Unwrap(stage_id) < CalibrationStageId)

NoRunAfterInterrupt ==
    /\ \A e \in interrupted : execs'[e] = execs[e]
    /\ AsksAfterInterrupt => pc' = "clear"

LeftMidCalibration ==
    pc = "idle" /\ IsSome(cur) /\ stage_id = Some(CalibrationStageId)

C8_CalibratedOnceBeforePower ==
    \A e \in Ids :
        /\ execs[e] <= 1
        /\ IsSome(powered[e]) => execs[e] = Unwrap(powered[e])

(***************************************************************************)
(* Properties of the instruction generator.                                *)
(***************************************************************************)
\* The generated arguments of the last call: instruction i, operand j.
OutArgs ==
    IF IsSome(out)
    THEN UNION {{<<i, j>> : j \in 1..Len(Unwrap(out).result[i].arguments)} :
                   i \in 1..Len(Unwrap(out).result)}
    ELSE {}

OutArg(p) == Unwrap(out).result[p[1]].arguments[p[2]]
OutPath(p) == Unwrap(out).paths[p[1]][p[2]]
OutSpec(p) == Unwrap(out).result[p[1]].template.operands[p[2]]

\* C5: whichever of the three ways produces it, the value generated for an
\* operand spec of bit width W is at most 2^W - 1, so Argument::new's range
\* assertion holds for every argument of every generated instruction.
C5_ArgumentWithinWidth ==
    \A p \in OutArgs :
        /\ OutPath(p) \in {"reuse", "pow2", "uniform"}
        /\ OutArg(p).value >= 0
        /\ OutArg(p).value <= Pow2(OutSpec(p).length) - 1

\* One call whose arguments came about in all three ways.
C5_Witness ==
    /\ IsSome(out)
    /\ {OutPath(p) : p \in OutArgs} = {"reuse", "pow2", "uniform"}

BiasingEnabled == gen.reuse_chance > 0

SameWidthPooled(arg) ==
    {k \in 1..Len(gen.known_args) : gen.known_args[k].spec.length = arg.length}

\* C9: with biasing enabled, for a requested spec (a) every pooled value of
\* a spec of the same bit width is a possible result of the reuse path, bound
\* to the requested spec; (b) the reuse path returns nothing else; (c) with
\* no pooled value of that width generate_argument takes another path.  The
\* generator's state is what matters, so the property is stated where no
\* result is pending.
C9_ReuseByWidth ==
    (out = None /\ BiasingEnabled) =>
        \A arg \in ArgSpecs :
            /\ \A k \in SameWidthPooled(arg) :
                   \E rand \in RandStates :
                       LET g == generate_argument(gen, rand, arg)
                       IN  /\ g.path = "reuse"
                           /\ g.arg = Argument_new(arg, gen.known_args[k].value)
            /\ \A rand \in RandStates :
                   LET g == generate_argument(gen, rand, arg)
                   IN  /\ g.path = "reuse" =>
                              /\ g.arg.spec = arg
                              /\ \E k \in SameWidthPooled(arg) :
                                     g.arg.value = gen.known_args[k].value
                       /\ SameWidthPooled(arg) = {} => g.path # "reuse"

\* A value pooled under one spec comes back bound to another spec of the same
\* width, and an operand of a width the pool lacks is generated afresh.
C9_Witness ==
    /\ BiasingEnabled
    /\ \A k \in 1..Len(gen.known_args) : gen.known_args[k].spec = RD
    /\ \E p \in OutArgs :
          /\ OutSpec(p) = RS1
          /\ OutPath(p) = "reuse"
          /\ OutArg(p) = Argument_new(RS1, 3)
    /\ \E p \in OutArgs : OutSpec(p) = FLAG /\ OutPath(p) # "reuse"

\* C10: every generated instruction has a template of the given set, as many
\* arguments as the template has operands, and its i-th argument is bound to
\* the template's i-th operand spec.
C10_InstructionShape ==
    IsSome(out) =>
        LET o == Unwrap(out)
        IN  /\ Len(o.result) = o.number
            /\ \A i \in 1..Len(o.result) :
                   LET inst == o.result[i]
                   IN  /\ inst.template \in Range(o.insts)
                       /\ Len(inst.arguments) = Len(inst.template.operands)
                       /\ \A j \in 1..Len(inst.arguments) :
                              inst.arguments[j].spec = inst.template.operands[j]

\* One call that generated both templates of a two-template set.
C10_Witness ==
    /\ IsSome(out)
    /\ Len(Unwrap(out).insts) = 2
    /\ {Unwrap(out).result[i].template : i \in 1..Len(Unwrap(out).result)}
           = {ADD, SETF}

(***************************************************************************)
(* Further properties of the calibration stage in the fuzz loop.           *)
(***************************************************************************)
\* The state was reached by a perform call in which a collaborator (an
\* observer hook, the executor, the event manager, the corpus store)
\* returned an error.
CollaboratorFailed == result # "none" /\ "Err" \in Range(trace)

\* C11: an error a collaborator returns during calibration is the last
\* thing perform does and is what perform returns; the round is left, the
\* worker is back at the head of the loop and a next round can begin.
C11_ErrorsEndTheRound ==
    CollaboratorFailed =>
        /\ result = "Err"
        /\ trace[Len(trace)] = "Err"
        /\ \A i \in 1..(Len(trace) - 1) : trace[i] # "Err"
        /\ pc = "idle"
        /\ ENABLED FuzzOneBegin

\* C11 witness: the post-execution hooks returned an error after the target
\* had run; perform returned it and the worker is at the head of the loop.
C11_Witness ==
    /\ CollaboratorFailed
    /\ Len(trace) >= 3
    /\ trace[Len(trace) - 2] = "post_exec_all"
    /\ result = "Err"
    /\ pc = "idle"

(***************************************************************************)
(* Further properties of the instruction generator.                        *)
(***************************************************************************)
\* C12: every constructed generator has both chances equal to 50 when the
\* toggle PHANTOM_TRAILS_NO_ARG_REUSE is not set and both equal to 0 when it
\* is set; the two chances never differ and lie in 0..100.
C12_ChancesByToggle ==
    /\ gen.reuse_chance = (IF no_arg_reuse THEN 0 ELSE DefaultChance)
    /\ gen.power_of_two_chance = gen.reuse_chance
    /\ gen.reuse_chance \in 0..Percent

(***************************************************************************)
(* Further properties of perform, the stage driven directly.               *)
(***************************************************************************)
\* The step is a perform call (every other step forgets the last result).
PerformStep == result' # "none"

\* C13: perform on a current entry whose scheduled count is above 0 returns
\* Ok and does nothing: no hook, no target execution, no log event, and the
\* accumulators, the entry's execution time and its record are unchanged.
C13_ScheduledEntryIsSkipped ==
    [][(PerformStep /\ IsSome(cur) /\ CurEntry.scheduled_count > 0)
        => /\ result' = "Ok"
           /\ trace' = <<>>
           /\ execs' = execs
           /\ psmeta' = psmeta
           /\ corpus' = corpus]_vars

\* C13 witness: perform has returned Ok without a call on an entry that
\* was scheduled before and calibrated in its first round.
C13_Witness ==
    /\ result = "Ok"
    /\ trace = <<>>
    /\ IsSome(cur)
    /\ CurEntry.scheduled_count > 0
    /\ execs[Unwrap(cur)] = 1

\* The state was reached by a perform call that went past the guard: a
\* first-time calibration.
Calibrated == result # "none" /\ trace # <<>> /\ trace[1] # "current_testcase"

Positions(call) == {i \in 1..Len(trace) : trace[i] = call}

\* The target returned an exit classification.
Classified == Len(trace) >= 3 /\ trace[2] = "run_target" /\ trace[3] \in ExitKinds

\* The order of the calls of a first-time calibration: the pre-execution
\* hooks first, then the target, at most once and exactly once if the hooks
\* succeeded, then the post-execution hooks, once, with the exit
\* classification the target returned.
HookOrder ==
    /\ trace[1] = "pre_exec_all"
    /\ Positions("pre_exec_all") = {1}
    /\ Positions("run_target") = (IF trace[2] = "Err" THEN {} ELSE {2})
    /\ Cardinality(Positions("post_exec_all")) <= 1
    /\ \A i \in Positions("post_exec_all") :
           /\ Classified
           /\ i > 3
           /\ trace[i + 1] = trace[3]

\* The warning of an abnormal exit could not be emitted.
LogFailed == "log_warn" \in Range(trace) /\ trace[Len(trace) - 1] = "log_warn"
                /\ trace[Len(trace)] = "Err"

\* C14 as stated: the calls of a first-time calibration are in order, and
\* the post-execution hooks run after every target execution that returned
\* an exit classification.
C14_HooksAsStated ==
    Calibrated =>
        /\ HookOrder
        /\ Classified => Positions("post_exec_all") # {}

\* C14 amended: the calls of a first-time calibration are in order, and the
\* post-execution hooks run after every target execution that returned an
\* exit classification, normal or abnormal, except when the warning of an
\* abnormal exit could not be emitted: then perform returns that error and
\* the post-execution hooks are not run.
C14_HooksInOrder ==
    Calibrated =>
        /\ HookOrder
        /\ (Classified /\ ~LogFailed) => Positions("post_exec_all") # {}
        /\ LogFailed =>
              /\ abnormal(trace[3])
              /\ result = "Err"
              /\ Positions("post_exec_all") = {}

\* C14 witness: the target crashed, the warning was emitted and the
\* post-execution hooks were given the crash classification.
C14_Witness ==
    /\ Calibrated
    /\ trace[3] = "Crash"
    /\ \E i \in Positions("post_exec_all") : trace[i + 1] = "Crash"
    /\ result = "Ok"

\* The step adds one calibration of the current entry, with b filled bytes,
\* to the accumulators; the log sum is not constrained here.
Accumulated(b) ==
    /\ IsSome(psmeta')
    /\ LET old == Unwrap(psmeta)
           new == Unwrap(psmeta')
       IN  /\ new.exec_time = old.exec_time + CurEntry.input + 1
           /\ new.cycles = old.cycles + 1
           /\ new.bitmap_size = old.bitmap_size + b
           /\ new.bitmap_entries = old.bitmap_entries + 1
           /\ new.queue_cycles = old.queue_cycles

\* The step is a perform call that went past the guard and returned Ok.
CalibratedOkStep == result' = "Ok" /\ trace' # <<>>

\* C15: with the SchedulerMetadata present, a first-time calibration that
\* completes adds exactly instruction count + 1 to the total cost, 1 to the
\* cycles, the number of filled bytes to the total filled bytes and 1 to
\* the entry count, and no perform call changes the accumulators in another
\* way; hence cycles and entry count are equal and count the calibrations.
C15_AccumulatorIncrements ==
    /\ [][(PerformStep /\ IsSome(psmeta)) =>
            /\ CalibratedOkStep =>
                   Accumulated(Unwrap(corpus'[Unwrap(cur)].metadata).bitmap_size)
            /\ psmeta' = psmeta \/ \E b \in BitmapCounts : Accumulated(b)]_vars
    /\ [](IsSome(psmeta) =>
            /\ Unwrap(psmeta).cycles = Unwrap(psmeta).bitmap_entries
            /\ Unwrap(psmeta).cycles <= TotalRuns)

\* C15 witness: two entries have been calibrated, once each, and the
\* accumulators hold both calibrations.
C15_Witness ==
    /\ IsSome(psmeta)
    /\ Len(corpus) = 2
    /\ \A e \in Ids : execs[e] = 1
    /\ result = "Ok"
    /\ trace # <<>>
    /\ Unwrap(psmeta).cycles = 2
    /\ Unwrap(psmeta).bitmap_entries = 2
    /\ Unwrap(psmeta).exec_time = (corpus[1].input + 1) + (corpus[2].input + 1)

\* The state was reached by a first-time calibration that returned Ok.
CalibratedOk == result = "Ok" /\ trace # <<>>

\* C16 as stated: after a first-time calibration that completed normally
\* the entry's execution time is its instruction count + 1, with or without
\* the SchedulerMetadata.
C16_ExecTimeAsStated ==
    CalibratedOk => CurEntry.exec_time = Some(CurEntry.input + 1)

\* C16 amended: after a first-time calibration that completed normally the
\* entry's execution time is its instruction count + 1 if the
\* SchedulerMetadata is present; if it is absent the call leaves the entry,
\* its execution time included, as it was.
C16_ExecTimeWithMetadata ==
    /\ [](CalibratedOk /\ IsSome(psmeta)
            => CurEntry.exec_time = Some(CurEntry.input + 1))
    /\ [][(CalibratedOkStep /\ ~IsSome(psmeta)) => corpus' = corpus]_vars

\* C16 witness: a calibration with the SchedulerMetadata present has set
\* the execution time of an entry of 2 instructions to 3.
C16_Witness ==
    /\ CalibratedOk
    /\ IsSome(psmeta)
    /\ CurEntry.input = 2
    /\ CurEntry.exec_time = Some(3)

\* The calls of a complete calibration run whose target returned e.
FullRun(e) ==
    <<"pre_exec_all", "run_target", e>>
        \o (IF e # "Ok" THEN <<"log_warn">> ELSE <<>>)
        \o <<"post_exec_all", e>>

\* C17: with no SchedulerMetadata registered, a first-time calibration
\* creates none and changes no entry; unless a collaborator returns an
\* error it runs the hooks around one execution of the target, logs nothing
\* but the warning of an abnormal exit, and returns Ok.
C17_NoMetadataNoUpdate ==
    [][(PerformStep /\ ~IsSome(psmeta) /\ IsSome(cur)
          /\ CurEntry.scheduled_count = 0)
        => /\ psmeta' = None
           /\ corpus' = corpus
           /\ ("Err" \notin Range(trace')) =>
                 /\ result' = "Ok"
                 /\ execs' = [execs EXCEPT ![Unwrap(cur)] = @ + 1]
                 /\ \E e \in ExitKinds : trace' = FullRun(e)]_vars

\* C17 witness: a calibration without SchedulerMetadata ran the target,
\* which exited normally, and returned Ok.
C17_Witness ==
    /\ ~IsSome(psmeta)
    /\ result = "Ok"
    /\ trace = FullRun("Ok")
    /\ execs[Unwrap(cur)] = 1
    /\ ~IsSome(CurEntry.exec_time)

\* The order of f64 values; NaN compares with nothing.
F64Leq(a, b) ==
    /\ a.k # "nan" /\ b.k # "nan"
    /\ \/ a.k = "ninf"
       \/ b.k = "pinf"
       \/ a.k = "fin" /\ b.k = "fin" /\ a.m <= b.m

\* C18: no field of the SchedulerMetadata that calibration accumulates into
\* ever decreases.
C18_AccumulatorsMonotonic ==
    [][(IsSome(psmeta) /\ IsSome(psmeta')) =>
          LET old == Unwrap(psmeta)
              new == Unwrap(psmeta')
          IN  /\ old.exec_time <= new.exec_time
              /\ old.cycles <= new.cycles
              /\ old.bitmap_size <= new.bitmap_size
              /\ old.bitmap_entries <= new.bitmap_entries
              /\ F64Leq(old.bitmap_size_log, new.bitmap_size_log)]_vars

(***************************************************************************)
(* The handicap, in the fuzz loop, where the scheduler counts queue cycles. *)
(***************************************************************************)
\* Entries other than the current one that calibration has given a record.
CalibratedBefore ==
    {e \in Ids \ {Unwrap(cur)} :
        IsSome(corpus[e].exec_time) /\ IsSome(corpus[e].metadata)}

\* The step is a first-time calibration that wrote the current entry's record.
RecordStep == CalibratedOkStep /\ IsSome(psmeta)

HandicapIsSnapshot ==
    Unwrap(corpus'[Unwrap(cur)].metadata).handicap = Unwrap(psmeta).queue_cycles

\* C19 as stated: the handicap written by calibration is the global counter
\* as it stands at that moment, and an entry calibrated after another gets
\* a larger handicap than it.
C19_HandicapAsStated ==
    [][RecordStep =>
          /\ HandicapIsSnapshot
          /\ \A e \in CalibratedBefore :
                 Unwrap(corpus'[Unwrap(cur)].metadata).handicap
                     > Unwrap(corpus[e].metadata).handicap]_vars

\* C19 amended: the handicap written by calibration is the scheduler's
\* queue-cycle counter as it stands at that moment, a counter calibration
\* does not change; an entry calibrated after another gets a handicap that
\* is at least the other's.
C19_HandicapIsQueueCycles ==
    [][/\ RecordStep =>
            /\ HandicapIsSnapshot
            /\ \A e \in CalibratedBefore :
                   Unwrap(corpus'[Unwrap(cur)].metadata).handicap
                       >= Unwrap(corpus[e].metadata).handicap
       /\ (PerformStep /\ IsSome(psmeta)) =>
            Unwrap(psmeta').queue_cycles = Unwrap(psmeta).queue_cycles]_vars

\* C19 witness: two entries are calibrated, the second one a queue cycle
\* later and with the larger handicap.
C19_Witness ==
    /\ CalibratedOk
    /\ IsSome(psmeta)
    /\ Unwrap(CurEntry.metadata).handicap = 1
    /\ \E e \in CalibratedBefore : Unwrap(corpus[e].metadata).handicap = 0

(***************************************************************************)
(* The uniform path of generate_argument.                                  *)
(***************************************************************************)
\* The values the uniform path can produce for a spec, over every state of
\* the random source.
UniformResults(arg) ==
    {generate_argument(gen, rand, arg).arg.value :
        rand \in {r \in RandStates :
                     generate_argument(gen, r, arg).path = "uniform"}}

\* C20: on the uniform path the possible results for a spec are exactly the
\* integers 0..max_value, max_value included, also for a spec one bit wide.
C20_UniformRangeInclusive ==
    out = None => \A arg \in ArgSpecs : UniformResults(arg) = 0..max_value(arg)

(***************************************************************************)
(* The life of an entry's record.                                          *)
(***************************************************************************)
\* C21: an entry's record is created at most once: an entry that carries a
\* record keeps it, with the depth it has, through every step; calibration
\* adds a record only to an entry without one, and a calibration of an
\* entry with a record leaves the depth alone whatever its parent says.
C21_RecordCreatedOnce ==
    [][/\ \A id \in Ids :
             IsSome(corpus[id].metadata) =>
                 /\ IsSome(corpus'[id].metadata)
                 /\ Unwrap(corpus'[id].metadata).depth
                        = Unwrap(corpus[id].metadata).depth
       /\ (PerformStep /\ "add_metadata" \in Range(trace')) =>
             /\ ~IsSome(CurEntry.metadata)
             /\ IsSome(corpus'[Unwrap(cur)].metadata)]_vars

\* C21 witness: calibration has updated the record of an entry whose depth
\* is not what its parent's record would give a new record.
C21_Witness ==
    /\ CalibratedOk
    /\ IsSome(psmeta)
    /\ "add_metadata" \notin Range(trace)
    /\ IsSome(CurEntry.parent_id)
    /\ IsSome(corpus[Unwrap(CurEntry.parent_id)].metadata)
    /\ Unwrap(CurEntry.metadata).cycle_and_time = <<CurEntry.input + 1, 1>>
    /\ Unwrap(CurEntry.metadata).depth # ExpectedDepth(Unwrap(cur))

(***************************************************************************)
(* The pool of known arguments.                                            *)
(***************************************************************************)
\* The step hands a result to the caller: a generate_instructions call.
GenerateStep == out = None /\ out' # None

\* forward_args on the generator as it is appends args as they are.
AppendsBatch(args) ==
    LET old == gen.known_args
        new == forward_args(gen, args).known_args
    IN  /\ Len(new) = Len(old) + Len(args)
        /\ \A i \in 1..Len(old) : new[i] = old[i]
        /\ \A j \in 1..Len(args) : new[Len(old) + j] = args[j]
        /\ forward_args(gen, args).reuse_chance = gen.reuse_chance
        /\ forward_args(gen, args).power_of_two_chance = gen.power_of_two_chance

\* C22: forward_args appends the batch as it is: the old pool stays in
\* front unchanged, the batch follows in order, duplicates included, and
\* the length grows by the length of the batch; and the pool of a generator
\* changes in no other way: generating leaves the generator unchanged.
\* (A step that empties the pool is the construction of a new generator.)
C22_PoolAppendOnly ==
    /\ [](\A args \in Batches : AppendsBatch(args))
    /\ [][/\ (GenerateStep => gen' = gen)
           /\ (gen'.known_args # gen.known_args /\ gen'.known_args # <<>>) =>
                 \E args \in Batches :
                    gen' = forward_args(gen, args)]_vars

\* C22 witness: a batch of two equal arguments was appended behind an
\* earlier one, and instructions were generated from that pool.
C22_Witness ==
    /\ gen.known_args = <<Argument_new(RD, 3), Argument_new(RS1, 1),
                          Argument_new(RS1, 1)>>
    /\ IsSome(out)
    /\ Len(Unwrap(out).result) > 0

(***************************************************************************)
(* Errors of perform and the accumulators.                                 *)
(***************************************************************************)
\* Entries whose calibration has stored an execution time and a record.
CompletedEntries ==
    {e \in Ids : IsSome(corpus[e].exec_time) /\ IsSome(corpus[e].metadata)}

\* C23: a perform call that returns an error leaves the SchedulerMetadata
\* as it was, and the entry count of the SchedulerMetadata is the number of
\* entries whose calibration completed with execution time and record.
C23_AllOrNothing ==
    /\ [][(PerformStep /\ result' = "Err") => psmeta' = psmeta]_vars
    /\ [](IsSome(psmeta) =>
            Unwrap(psmeta).bitmap_entries = Cardinality(CompletedEntries))

====
